---- MODULE Spec2Model ----
(***************************************************************************)
(* Model of the platform SAT encoder of timberborn_support_solver:        *)
(* EncodingVars::new, EncodingDag, encode, SolverConfig::start, the        *)
(* decoder from_assignment and PlatformLayout::validate.                   *)
(*                                                                         *)
(* Points are <<x, y>>, Dimensions are <<width, height>>.  A Grid is a     *)
(* record [dims, data] with data in row-major order.  SAT variables are    *)
(* the natural numbers handed out by the variable manager; a clause is a   *)
(* record [neg, pos] of the variables occurring negatively / positively.   *)
(***************************************************************************)
EXTENDS Integers, Sequences, FiniteSets, TLC

\* src/src/lib.rs:46  const TERRAIN_SUPPORT_DISTANCE: usize = 4;
TERRAIN_SUPPORT_DISTANCE == 4

\* Largest side of a platform definition drawn for the catalog.
MaxDim == 3
\* Largest number of platform definitions in a catalog.
MaxDefs == 2
\* Largest number of tiles of a world grid.
MaxCells == 2
\* Largest number of placement variables a solver answer sets to true.
MaxTrue == 2
\* Largest count limit of a platform type.
MaxLimit == 0
\* Largest number of platform types with a limit.
MaxLimited == 1
\* EncodingVars on its own: largest side of a definition, largest number of
\* definitions, largest number of tiles.
VarsMaxDim == 3
VarsMaxDefs == 1
VarsMaxCells == 1
\* The 1x1 catalog on its own: largest number of tiles of a world.
UnitMaxCells == 5
\* validate on layouts with several platforms: largest number of tiles,
\* of platforms, and largest side of a platform.
OverlapMaxCells == 2
OverlapMaxPlatforms == 2
OverlapMaxDim == 2
\* validate on worlds of more tiles: largest number of tiles, of platforms,
\* and largest side of a platform.
SupportMaxCells == 5
SupportMaxPlatforms == 1
SupportMaxDim == 1
\* Dimensions::partial_cmp: largest width or height compared (from 0).
CmpMaxDim == 3
\* Dimensions::iter_within: largest width or height iterated (from 0).
IterMaxDim == 7
\* Point::adjacent_points: largest number of tiles of the grid, largest depth.
AdjacentMaxCells == 4
AdjacentMaxDepth == 3
\* the GUI: largest weight of a solution, Solve clicks.
MaxWeight == 3
MaxClicks == 2
\* run_solver: largest side, number of platform types, tiles, solver runs.
RunMaxDim == 2
RunMaxDefs == 2
RunMaxCells == 2
MaxRuns == 4
\* encode on larger catalogs: largest side, number of footprints (platform
\* types and their rotations), tiles.
SelectMaxDim == 2
SelectMaxFootprints == 4
SelectMaxCells == 1
\* loop_with_feedback: largest value passed around, rounds started.
MaxValue == 1
MaxIterations == 3
\* Platform::overlaps: largest coordinate of a platform's point.
PlatformMaxCoord == 5
\* WorldGrid deserialization: largest number of rows, longest row.
MaxRows == 3
RowMaxLen == 2

(***************************************************************************)
(* Generic helpers                                                         *)
(***************************************************************************)
RECURSIVE Perms(_)
\* Every sequence that enumerates the set S once: the possible iteration
\* orders of a HashMap / HashSet holding S.
Perms(S) ==
  IF S = {} THEN {<< >>}
  ELSE UNION {{<<x>> \o p : p \in Perms(S \ {x})} : x \in S}

RECURSIVE KSubsets(_, _)
\* The subsets of S with at most k elements.
KSubsets(S, k) ==
  IF k = 0 \/ S = {} THEN {{}}
  ELSE LET x == CHOOSE e \in S : TRUE
           rest == S \ {x}
       IN KSubsets(rest, k) \cup {T \cup {x} : T \in KSubsets(rest, k - 1)}

\* Iterator::collect: the set with its elements enumerated
Collect(S) == {x : x \in S}

Range(s) == {s[i] : i \in 1..Len(s)}

IndexOf(s, e) == CHOOSE i \in 1..Len(s) : s[i] = e

Max2(a, b) == IF a >= b THEN a ELSE b

(***************************************************************************)
(* Geometry: src/src/math/dimensions.rs, src/src/point.rs, src/src/grid.rs *)
(***************************************************************************)
empty(d) == d[1] = 0 \/ d[2] = 0

flipped(d) == <<d[2], d[1]>>

contains(d, p) == p[1] >= 0 /\ p[1] < d[1] /\ p[2] >= 0 /\ p[2] < d[2]

cmp(a, b) == IF a < b THEN "Less" ELSE IF a > b THEN "Greater" ELSE "Equal"

\* impl PartialEq for Dimensions
DimsEq(a, b) == (empty(a) /\ empty(b)) \/ (a[1] = b[1] /\ a[2] = b[2])

\* A slip of partial_cmp: the axes are compared whether or not a value is empty.
partial_cmp_axes_only(a, b) ==
  LET cw == cmp(a[1], b[1])
      ch == cmp(a[2], b[2])
  IN IF cw = "Equal" /\ ch = "Equal" THEN "Equal"
     ELSE IF (cw = "Less" /\ ch = "Greater") \/ (cw = "Greater" /\ ch = "Less")
          THEN "None"
     ELSE IF cw = "Less" \/ ch = "Less" THEN "Less"
     ELSE "Greater"

\* impl PartialOrd for Dimensions; "None" is the missing ordering
partial_cmp(a, b) ==
  IF empty(a) /\ ~empty(b) THEN "Less"
  ELSE IF ~empty(a) /\ empty(b) THEN "Greater"
  ELSE IF empty(a) /\ empty(b) THEN "Equal"
  ELSE LET cw == cmp(a[1], b[1])
           ch == cmp(a[2], b[2])
       IN IF cw = "Equal" /\ ch = "Equal" THEN "Equal"
          ELSE IF (cw = "Less" /\ ch = "Greater") \/ (cw = "Greater" /\ ch = "Less")
               THEN "None"
          ELSE IF cw = "Less" \/ ch = "Less" THEN "Less"
          ELSE "Greater"

\* a < b on Dimensions
DimsLt(a, b) == partial_cmp(a, b) = "Less"

RECURSIVE DimensionsIterNext(_, _, _)
\* impl Iterator for DimensionsIter: the points yielded from `current` on
DimensionsIterNext(dims, current, out) ==
  IF current[2] >= dims[2] THEN out
  ELSE LET x1 == current[1] + 1
       IN DimensionsIterNext(dims,
                             IF x1 >= dims[1] THEN <<0, current[2] + 1>>
                                              ELSE <<x1, current[2]>>,
                             Append(out, current))

iter_within(dims) == DimensionsIterNext(dims, <<0, 0>>, << >>)

PointAdd(a, b) == <<a[1] + b[1], a[2] + b[2]>>

PointSub(a, b) == <<a[1] - b[1], a[2] - b[2]>>

neighbors(p) ==
  << <<p[1] + 1, p[2]>>, <<p[1], p[2] + 1>>, <<p[1] - 1, p[2]>>, <<p[1], p[2] - 1>> >>

\* Grid::data_index, one-based for TLA+ sequences; only for contained points
data_index(dims, p) == p[1] + p[2] * dims[1] + 1

\* Grid::get(p).is_some()
GridHas(grid, p) == contains(grid.dims, p)

\* Grid::get(p).unwrap()
GridGet(grid, p) == grid.data[data_index(grid.dims, p)]

\* Grid::index_to_point for the one-based index i
index_to_point(dims, i) == <<(i - 1) % dims[1], (i - 1) \div dims[1]>>

RECURSIVE AdjacentVisit(_, _, _, _, _, _)
\* the for loop of adjacent_points over the neighbours ns[i..] of a point
\* popped at depth p_depth; st holds `points` and `queue`
AdjacentVisit(ns, i, p_depth, depth, grid, st) ==
  IF i > Len(ns) THEN st
  ELSE LET n == ns[i]
       IN IF ~(GridHas(grid, n) /\ GridGet(grid, n))
          THEN AdjacentVisit(ns, i + 1, p_depth, depth, grid, st)
          ELSE IF n \in st.points
          THEN AdjacentVisit(ns, i + 1, p_depth, depth, grid, st)
          ELSE LET inserted == [st EXCEPT !.points = @ \cup {n}]
               IN IF p_depth + 1 >= depth
                  THEN AdjacentVisit(ns, i + 1, p_depth, depth, grid, inserted)
                  ELSE AdjacentVisit(ns, i + 1, p_depth, depth, grid,
                         [inserted EXCEPT !.queue = Append(@, <<n, p_depth + 1>>)])

RECURSIVE AdjacentLoop(_, _, _)
\* the while loop of adjacent_points over the queue
AdjacentLoop(st, depth, grid) ==
  IF st.queue = << >> THEN st.points
  ELSE LET front == Head(st.queue)
       IN AdjacentLoop(AdjacentVisit(neighbors(front[1]), 1, front[2], depth, grid,
                                     [st EXCEPT !.queue = Tail(@)]),
                       depth, grid)

\* Point::adjacent_points(self, depth, grid)
adjacent_points(self, depth, grid) ==
  AdjacentLoop([points |-> {self}, queue |-> << <<self, 0>> >>], depth, grid)

(***************************************************************************)
(* Platform catalog.  A PlatformDef is identified with its native          *)
(* Dimensions; a Platform is [point, def, rotated].                        *)
(***************************************************************************)
PlatformDefDims(def) == def

PlatformNew(point, def, rotated) == [point |-> point, def |-> def, rotated |-> rotated]

\* Platform::dims: the effective footprint
PlatformDims(plat) == IF plat.rotated THEN flipped(PlatformDefDims(plat.def))
                                      ELSE PlatformDefDims(plat.def)

\* the first entry of PLATFORMS_DEFAULT, the 1x1 platform
PLATFORMS_DEFAULT_0 == <<1, 1>>

\* pub fn dims_platform_map
dims_platform_map(platform_defs) ==
  LET keys == {PlatformDefDims(p) : p \in platform_defs}
                \cup {flipped(PlatformDefDims(p)) : p \in platform_defs}
  IN [d \in keys |->
        {p \in platform_defs : PlatformDefDims(p) = d \/ flipped(PlatformDefDims(p)) = d}]

(***************************************************************************)
(* EncodingVars                                                            *)
(***************************************************************************)
\* enum EncodedItem; the field a variant lacks holds a filler
PlatformItem(point, dims) == [kind |-> "Platform", point |-> point, dims |-> dims, layer |-> 0]

TerrainItem(point, layer) == [kind |-> "Terrain", point |-> point, dims |-> <<0, 0>>, layer |-> layer]

\* A slip of the terrain test: every tile keeps its layer variables.
EncodingVars_new_all_terrain(platform_defs, terrain, dim_keys, first_def) ==
  LET dim_map == dims_platform_map(platform_defs)
      nd == Len(dim_keys)
      per_tile == nd + TERRAIN_SUPPORT_DISTANCE
      tiles == iter_within(terrain.dims)
      tile(i) ==
        LET base == (i - 1) * per_tile
        IN [dims_vars |-> [d \in Range(dim_keys) |-> base + IndexOf(dim_keys, d) - 1],
            terrain |-> [l \in 1..TERRAIN_SUPPORT_DISTANCE |-> base + nd + l - 1]]
      grid == [dims |-> terrain.dims, data |-> [i \in 1..Len(tiles) |-> tile(i)]]
      platform_items ==
        {<<grid.data[i].dims_vars[d], PlatformItem(index_to_point(grid.dims, i), d)>> :
            i \in 1..Len(tiles), d \in Range(dim_keys)}
      terrain_items ==
        UNION {{<<grid.data[i].terrain[l], TerrainItem(index_to_point(grid.dims, i), l - 1)>> :
                  l \in 1..Len(grid.data[i].terrain)} : i \in 1..Len(tiles)}
      items == platform_items \cup terrain_items
      ids == {it[1] : it \in items}
  IN [dim_map |-> dim_map,
      dim_keys |-> dim_keys,
      first_def |-> first_def,
      grid |-> grid,
      var_map |-> [v \in ids |-> (CHOOSE it \in items : it[1] = v)[2]],
      next_var |-> Len(tiles) * per_tile]

\* EncodingVars::new.  dim_keys is the iteration order of dim_map.keys(),
\* first_def[d] the first element of the HashSet dim_map[d]; next_var is the
\* variable manager's count of variables handed out when new returns.
EncodingVars_new(platform_defs, terrain, dim_keys, first_def) ==
  LET dim_map == dims_platform_map(platform_defs)
      nd == Len(dim_keys)
      per_tile == nd + TERRAIN_SUPPORT_DISTANCE
      tiles == iter_within(terrain.dims)
      tile(i) ==
        LET base == (i - 1) * per_tile
        IN [dims_vars |-> [d \in Range(dim_keys) |-> base + IndexOf(dim_keys, d) - 1],
            \* the array of fresh variables is built before then_some looks
            \* at the tile, so the variables are taken for every tile
            terrain |-> IF GridGet(terrain, tiles[i])
                        THEN [l \in 1..TERRAIN_SUPPORT_DISTANCE |-> base + nd + l - 1]
                        ELSE << >>]
      grid == [dims |-> terrain.dims, data |-> [i \in 1..Len(tiles) |-> tile(i)]]
      platform_items ==
        {<<grid.data[i].dims_vars[d], PlatformItem(index_to_point(grid.dims, i), d)>> :
            i \in 1..Len(tiles), d \in Range(dim_keys)}
      terrain_items ==
        UNION {{<<grid.data[i].terrain[l], TerrainItem(index_to_point(grid.dims, i), l - 1)>> :
                  l \in 1..Len(grid.data[i].terrain)} : i \in 1..Len(tiles)}
      items == platform_items \cup terrain_items
      ids == {it[1] : it \in items}
  IN [dim_map |-> dim_map,
      dim_keys |-> dim_keys,
      first_def |-> first_def,
      grid |-> grid,
      var_map |-> [v \in ids |-> (CHOOSE it \in items : it[1] = v)[2]],
      next_var |-> Len(tiles) * per_tile]

\* EncodingVars::at(point).is_some()
HasAt(ev, point) == GridHas(ev.grid, point)

\* EncodingVars::at(point).unwrap()
at(ev, point) == GridGet(ev.grid, point)

\* EncodingVars::for_dims_at; << >> is None
for_dims_at(ev, point, dims) ==
  IF HasAt(ev, point) /\ dims \in DOMAIN at(ev, point).dims_vars
  THEN <<at(ev, point).dims_vars[dims]>>
  ELSE << >>

\* EncodingVars::platform_dims
platform_dims(ev) == DOMAIN ev.dim_map

\* EncodingVars::iter_dims_vars(dims).unwrap()
iter_dims_vars(ev, dims) == {ev.grid.data[i].dims_vars[dims] : i \in 1..Len(ev.grid.data)}

\* A slip of the rotation flag: the platform is never marked rotated.
var_to_platform_unrotated(ev, var) ==
  IF var \notin DOMAIN ev.var_map THEN << >>
  ELSE LET item == ev.var_map[var]
       IN IF item.kind = "Platform"
          THEN <<PlatformNew(item.point, ev.first_def[item.dims], FALSE)>>
          ELSE << >>

\* EncodingVars::var_to_platform; << >> is None
var_to_platform(ev, var) ==
  IF var \notin DOMAIN ev.var_map THEN << >>
  ELSE LET item == ev.var_map[var]
       IN IF item.kind = "Platform"
          THEN LET def == ev.first_def[item.dims]
                   rotated == PlatformDefDims(def) # item.dims
               IN <<PlatformNew(item.point, def, rotated)>>
          ELSE << >>

(***************************************************************************)
(* EncodingDag: the graph over EncodingNode = Platform(dims) | Point(p),   *)
(* edges smaller -> larger.  Nodes are kept by value; the closure and the  *)
(* reduction are sets of node pairs.                                       *)
(***************************************************************************)
PlatformNode(d) == [kind |-> "Platform", v |-> d]

PointNode(p) == [kind |-> "Point", v |-> p]

\* impl PartialOrd for EncodingNode: a < b
NodeLt(a, b) ==
  IF a.kind = "Platform" /\ b.kind = "Platform" THEN DimsLt(a.v, b.v)
  ELSE IF a.kind = "Point" /\ b.kind = "Platform" THEN contains(b.v, a.v)
  ELSE FALSE

\* pub fn dag_by_partial_ord: an edge other -> this for every other < this
dag_by_partial_ord(items) == Collect({e \in items \X items : NodeLt(e[1], e[2])})

RECURSIVE TransitiveClosure(_)
\* petgraph::algo::tred::dag_transitive_reduction_closure, the closure:
\* every pair joined by a path of one or more edges
TransitiveClosure(E) ==
  LET step == E \cup UNION {{<<e[1], f[2]>> : f \in {g \in E : g[1] = e[2]}} : e \in E}
  IN IF step = E THEN E ELSE TransitiveClosure(step)

\* petgraph::algo::tred::dag_transitive_reduction_closure, the reduction:
\* the edges that no path of two or more edges replaces
TransitiveReduction(E, C) ==
  Collect({e \in E : ~\E f \in C : f[1] = e[1] /\ <<f[2], e[2]>> \in C})

RECURSIVE FoldDimsMax(_, _)
FoldDimsMax(ds, acc) ==
  IF ds = {} THEN acc
  ELSE LET d == CHOOSE e \in ds : TRUE
       IN FoldDimsMax(ds \ {d}, <<Max2(acc[1], d[1]), Max2(acc[2], d[2])>>)

\* the nodes dag_by_partial_ord is given: the platform dims and the points
\* of the rectangle that covers them all
DagItems(dims) ==
  {PlatformNode(d) : d \in dims}
    \cup {PointNode(p) : p \in Range(iter_within(FoldDimsMax(dims, <<1, 1>>)))}

\* EncodingDag::new
EncodingDag_new(dims) ==
  CHOOSE g \in
    UNION {UNION {{[nodes |-> Collect({n \in DagItems(dims) : \E e \in edges : e[1] = n \/ e[2] = n}),
                    dag |-> edges,
                    closure |-> closure,
                    reduced |-> TransitiveReduction(edges, closure)]} :
                  closure \in {TransitiveClosure(edges)}} :
           edges \in {dag_by_partial_ord(DagItems(dims))}} : TRUE

\* EncodingDag::iter_platform_edges_reduced: pairs <<smaller, larger>>
iter_platform_edges_reduced(dag) ==
  {<<e[1].v, e[2].v>> : e \in {f \in dag.reduced : f[1].kind = "Platform" /\ f[2].kind = "Platform"}}

\* EncodingDag::iter_point_platform_edges_reduced: pairs <<offset, dims>>
iter_point_platform_edges_reduced(dag) ==
  {<<e[1].v, e[2].v>> : e \in {f \in dag.reduced : f[1].kind = "Point" /\ f[2].kind = "Platform"}}

\* EncodingDag::iter_platform_targets_by_source: for every platform node the
\* targets of its reduced out-edges
iter_platform_targets_by_source(dag) ==
  {{e[2] : e \in {f \in dag.reduced : f[1] = n}} : n \in {m \in dag.nodes : m.kind = "Platform"}}

\* EncodingDag::common_platform_successors
common_platform_successors(dag, a, b) ==
  {e[2] : e \in {f \in dag.closure : f[1] = a /\ <<b, f[2]>> \in dag.closure /\ f[2].kind = "Platform"}}

\* A slip of the filter direction: keeps the nodes with no edge to another
\* node of indices.
maximal_from_largest(dag, indices) ==
  Collect({n \in indices : ~\E m \in indices : <<n, m>> \in dag.closure})

\* EncodingDag::maximal_from: keeps n unless the closure has an edge m -> n
\* from some m of indices
maximal_from(dag, indices) ==
  Collect({n \in indices : ~\E m \in indices : <<m, n>> \in dag.closure})

(***************************************************************************)
(* encode: the clauses added to the instance                               *)
(***************************************************************************)
Clause(neg, pos) == [neg |-> neg, pos |-> pos]

\* add_lit_impl_lit per reduced platform edge: larger -> smaller
\* A slip of the direction: smaller implies larger.
SelectionClauses_reversed(dag, current_vars) ==
  {Clause({current_vars.dims_vars[e[1]]}, {current_vars.dims_vars[e[2]]}) :
      e \in iter_platform_edges_reduced(dag)}

SelectionClauses(dag, current_vars) ==
  {Clause({current_vars.dims_vars[e[2]]}, {current_vars.dims_vars[e[1]]}) :
      e \in iter_platform_edges_reduced(dag)}

\* A slip of the pair loop: no clause is added for the pairs.
PairClauses_none(dag, current_vars) == {}

\* add_cube_impl_clause per pair of targets of one source
PairClauses(dag, current_vars) ==
  UNION {{LET common_successors == common_platform_successors(dag, ab[1], ab[2])
              common_successors_maximal == maximal_from(dag, common_successors)
          IN Clause({current_vars.dims_vars[ab[1].v], current_vars.dims_vars[ab[2].v]},
                    {current_vars.dims_vars[c.v] : c \in common_successors_maximal}) :
            ab \in {x \in targets \X targets : x[1] # x[2]}} :
         targets \in iter_platform_targets_by_source(dag)}

\* A slip of the layer index: the platforms are bound to layer 0.
BindingClauses_top_layer(dag, ev, p, current_vars) ==
  IF current_vars.terrain = << >> THEN {}
  ELSE {Clause({current_vars.terrain[1]},
               {at(ev, PointSub(p, od[1])).dims_vars[od[2]] :
                  od \in {x \in iter_point_platform_edges_reduced(dag) : HasAt(ev, PointSub(p, x[1]))}})}

\* add_lit_impl_clause of the deepest layer to the platforms covering p
BindingClauses(dag, ev, p, current_vars) ==
  IF current_vars.terrain = << >> THEN {}
  ELSE LET point_var == current_vars.terrain[TERRAIN_SUPPORT_DISTANCE]
           platform_vars ==
             {at(ev, PointSub(p, od[1])).dims_vars[od[2]] :
                od \in {x \in iter_point_platform_edges_reduced(dag) : HasAt(ev, PointSub(p, x[1]))}}
       IN {Clause({point_var}, platform_vars)}

\* A slip of the neighbour list: a layer is implied by the tile's own deeper
\* layer only.
SupportClauses_own_layers(ev, p, current_vars) ==
  IF current_vars.terrain = << >> THEN {}
  ELSE {Clause({current_vars.terrain[i + 1]}, {current_vars.terrain[i + 2]}) :
           i \in 0..(TERRAIN_SUPPORT_DISTANCE - 2)}
         \cup {Clause({}, {current_vars.terrain[1]})}

\* A slip at the end of the section: the unit clause of layer 0 is left out.
SupportClauses_no_unit(ev, p, current_vars) ==
  IF current_vars.terrain = << >> THEN {}
  ELSE LET nbrs == neighbors(p)
           neighbor_terrain_vars ==
             {at(ev, nbrs[n]).terrain :
                n \in {m \in 1..4 : HasAt(ev, nbrs[m]) /\ at(ev, nbrs[m]).terrain # << >>}}
               \cup {current_vars.terrain}
       IN {Clause({current_vars.terrain[i + 1]}, {v[i + 2] : v \in neighbor_terrain_vars}) :
              i \in 0..(TERRAIN_SUPPORT_DISTANCE - 2)}

\* the layer implications and the unit clause of layer 0
SupportClauses(ev, p, current_vars) ==
  IF current_vars.terrain = << >> THEN {}
  ELSE LET point_terrain == current_vars.terrain
           nbrs == neighbors(p)
           neighbor_terrain_vars ==
             {at(ev, nbrs[n]).terrain :
                n \in {m \in 1..4 : HasAt(ev, nbrs[m]) /\ at(ev, nbrs[m]).terrain # << >>}}
               \cup {point_terrain}
       IN {Clause({point_terrain[i + 1]}, {v[i + 2] : v \in neighbor_terrain_vars}) :
              i \in 0..(TERRAIN_SUPPORT_DISTANCE - 2)}
            \cup {Clause({}, {point_terrain[1]})}

\* the clauses encode adds for the tile p
TileClauses(dag, ev, p) ==
  LET current_vars == at(ev, p)
  IN SelectionClauses(dag, current_vars)
       \cup PairClauses(dag, current_vars)
       \cup BindingClauses(dag, ev, p, current_vars)
       \cup SupportClauses(ev, p, current_vars)

\* pub fn encode, given the variables EncodingVars::new has built
encode(ev, terrain) ==
  UNION {UNION {TileClauses(dag, ev, p) : p \in Range(iter_within(terrain.dims))} :
           dag \in {EncodingDag_new(platform_dims(ev))}}

(***************************************************************************)
(* The decoder: PlatformLayout::from_assignment / Solution::from_assignment*)
(***************************************************************************)
\* the and_modify closure: the entry is replaced only if the new
\* platform's def dims are larger
KeepOrReplace(previous, plat) ==
  IF DimsLt(PlatformDefDims(previous.def), PlatformDefDims(plat.def)) THEN plat ELSE previous

RECURSIVE FromAssignmentFold(_, _, _, _)
\* the loop over the assigned literals, in the order of the variables
FromAssignmentFold(ev, assignment, var, platforms) ==
  IF var >= ev.next_var THEN platforms
  ELSE LET decoded == IF var \in assignment THEN var_to_platform(ev, var) ELSE << >>
       IN IF decoded = << >> THEN FromAssignmentFold(ev, assignment, var + 1, platforms)
          ELSE LET plat == decoded[1]
                   updated ==
                     IF plat.point \in DOMAIN platforms
                     THEN [platforms EXCEPT ![plat.point] = KeepOrReplace(@, plat)]
                     ELSE platforms @@ (plat.point :> plat)
               IN FromAssignmentFold(ev, assignment, var + 1, updated)

\* from_assignment: the map origin -> Platform
from_assignment(assignment, ev) == FromAssignmentFold(ev, assignment, 0, << >>)

\* from_assignment returns Self, not a Result: no input makes it fail
from_assignment_is_err(assignment, ev) == FALSE

\* PlatformLayout::platform_count
platform_count(platforms) == Cardinality(DOMAIN platforms)

(***************************************************************************)
(* PlatformLayout::validate                                                *)
(***************************************************************************)
RECURSIVE PaintOffsets_later_only(_, _, _, _, _)
\* A slip of the overlap branch: only the platform being painted is recorded.
PaintOffsets_later_only(dims, plat, offsets, i, st) ==
  IF i > Len(offsets) THEN st
  ELSE LET point == PointAdd(offsets[i], plat.point)
       IN IF contains(dims, point)
          THEN LET ix == data_index(dims, point)
                   tile == st.grid[ix]
                   overlap == tile.occupied_by # << >>
                   painted ==
                     [terrain_supported |-> IF tile.terrain_supported = "None" THEN "None" ELSE "Some(true)",
                      occupied_by |-> IF overlap THEN tile.occupied_by ELSE <<plat>>]
               IN PaintOffsets_later_only(dims, plat, offsets, i + 1,
                    [st EXCEPT !.grid[ix] = painted,
                               !.overlapping_platforms = IF overlap THEN @ \cup {plat} ELSE @])
          ELSE PaintOffsets_later_only(dims, plat, offsets, i + 1,
                    [st EXCEPT !.out_of_bounds_platforms = @ \cup {plat}])

RECURSIVE PaintOffsets(_, _, _, _, _)
\* the inner loop of validate over the offsets of one platform
PaintOffsets(dims, plat, offsets, i, st) ==
  IF i > Len(offsets) THEN st
  ELSE LET point == PointAdd(offsets[i], plat.point)
       IN IF contains(dims, point)
          THEN LET ix == data_index(dims, point)
                   tile == st.grid[ix]
                   overlap == tile.occupied_by # << >>
                   painted ==
                     [terrain_supported |-> IF tile.terrain_supported = "None" THEN "None" ELSE "Some(true)",
                      occupied_by |-> IF overlap THEN tile.occupied_by ELSE <<plat>>]
               IN PaintOffsets(dims, plat, offsets, i + 1,
                    [st EXCEPT !.grid[ix] = painted,
                               !.overlapping_platforms =
                                  IF overlap THEN @ \cup {plat, tile.occupied_by[1]} ELSE @])
          ELSE PaintOffsets(dims, plat, offsets, i + 1,
                    [st EXCEPT !.out_of_bounds_platforms = @ \cup {plat}])

RECURSIVE PaintPlatforms(_, _, _, _, _)
\* the outer loop of validate over the platforms, in the map's order
PaintPlatforms(dims, platforms, order, j, st) ==
  IF j > Len(order) THEN st
  ELSE LET plat == platforms[order[j]]
       IN PaintPlatforms(dims, platforms, order, j + 1,
            PaintOffsets(dims, plat, iter_within(PlatformDims(plat)), 1, st))

RECURSIVE ExtendSupport_round_short(_, _, _)
\* A slip of the round count: the last round is not run.
ExtendSupport_round_short(dims, grid, rounds) ==
  IF rounds <= 1 THEN grid
  ELSE LET supported_set ==
             UNION {Range(neighbors(index_to_point(dims, i))) :
                      i \in {k \in 1..Len(grid) : grid[k].terrain_supported = "Some(true)"}}
           next == [i \in 1..Len(grid) |->
                      IF index_to_point(dims, i) \in supported_set
                           /\ grid[i].terrain_supported # "None"
                      THEN [grid[i] EXCEPT !.terrain_supported = "Some(true)"]
                      ELSE grid[i]]
       IN ExtendSupport_round_short(dims, next, rounds - 1)

RECURSIVE ExtendSupport(_, _, _)
\* the rounds that extend terrain support to the neighbours
ExtendSupport(dims, grid, rounds) ==
  IF rounds = 0 THEN grid
  ELSE LET supported_set ==
             UNION {Range(neighbors(index_to_point(dims, i))) :
                      i \in {k \in 1..Len(grid) : grid[k].terrain_supported = "Some(true)"}}
           next == [i \in 1..Len(grid) |->
                      IF index_to_point(dims, i) \in supported_set
                           /\ grid[i].terrain_supported # "None"
                      THEN [grid[i] EXCEPT !.terrain_supported = "Some(true)"]
                      ELSE grid[i]]
       IN ExtendSupport(dims, next, rounds - 1)

\* PlatformLayout::validate; order is the iteration order of self.platforms
validate(platforms, world_grid, order) ==
  LET dims == world_grid.dims
      tracking_grid ==
        [i \in 1..Len(world_grid.data) |->
           [terrain_supported |-> IF world_grid.data[i] THEN "Some(false)" ELSE "None",
            occupied_by |-> << >>]]
      painted == PaintPlatforms(dims, platforms, order, 1,
                   [grid |-> tracking_grid, overlapping_platforms |-> {},
                    out_of_bounds_platforms |-> {}])
      extended == ExtendSupport(dims, painted.grid, TERRAIN_SUPPORT_DISTANCE - 1)
  IN [unsupported_terrain |->
        {index_to_point(dims, i) : i \in {k \in 1..Len(extended) : extended[k].terrain_supported = "Some(false)"}},
      overlapping_platforms |-> painted.overlapping_platforms,
      out_of_bounds_platforms |-> painted.out_of_bounds_platforms]

\* ValidationResult::is_valid
is_valid(v) ==
  v.unsupported_terrain = {} /\ v.overlapping_platforms = {} /\ v.out_of_bounds_platforms = {}

(***************************************************************************)
(* The SAT solver (external): its answer is any assignment that satisfies  *)
(* the clauses and the cardinality constraints.                            *)
(***************************************************************************)
Satisfies(cnf, assignment) ==
  \A c \in cnf : c.neg \subseteq assignment => c.pos \cap assignment # {}

\* the Boolean meaning of the totalizer encoding of sum(lits) <= k
CardOk(constraints, assignment) ==
  \A c \in constraints : Cardinality(c.lits \cap assignment) <= c.k

RECURSIVE TerrainModel(_, _, _)
\* The terrain-layer part of a model that extends the placement part P: the
\* largest set T of layer variables all of whose implications hold in P \cup T.
\* The decoder reads no layer variable, so one extension stands for all.
TerrainModel(cnf, P, T) ==
  LET keep == Collect({t \in T : \A c \in cnf : c.neg = {t} => c.pos \cap (P \cup T) # {}})
  IN IF keep = T THEN T ELSE TerrainModel(cnf, P, keep)

PlatformVars(ev) == Collect({v \in DOMAIN ev.var_map : ev.var_map[v].kind = "Platform"})

TerrainVars(ev) == Collect({v \in DOMAIN ev.var_map : ev.var_map[v].kind = "Terrain"})

\* the full assignment for the placement part P
Extend(cnf, ev, P) == P \cup TerrainModel(cnf, P, TerrainVars(ev))

IsModel(cnf, constraints, ev, P) ==
  LET a == Extend(cnf, ev, P) IN Satisfies(cnf, a) /\ CardOk(constraints, a)

\* the placement that puts the first footprint without a smaller one on
\* every terrain tile; it satisfies every instance without constraints
MinimalCover(ev) ==
  {v \in PlatformVars(ev) :
     /\ at(ev, ev.var_map[v].point).terrain # << >>
     /\ ev.var_map[v].dims =
          ev.dim_keys[CHOOSE i \in 1..Len(ev.dim_keys) :
             /\ ~\E d \in Range(ev.dim_keys) : DimsLt(d, ev.dim_keys[i])
             /\ \A j \in 1..(i - 1) : \E d \in Range(ev.dim_keys) : DimsLt(d, ev.dim_keys[j])]}

Satisfiable(cnf, constraints, ev) ==
  \/ IsModel(cnf, constraints, ev, MinimalCover(ev))
  \/ \E P \in SUBSET PlatformVars(ev) : IsModel(cnf, constraints, ev, P)

(***************************************************************************)
(* State                                                                   *)
(***************************************************************************)
VARIABLES
  pc,             \* position of the run: new, encoded, started, solved, validated
  platform_defs,  \* the catalog (a set of PlatformDef)
  world,          \* World.grid
  limits,         \* SolverRunConfig.limits given to start: PlatformDef -> count
  evars,          \* SolverConfig.vars (EncodingVars)
  var_manager,    \* number of variables the instance's variable manager handed out
  instance,       \* SolverConfig.instance: the clauses
  card,           \* cardinality constraints start added to the solver
  response,       \* SolverResponse: none, Sat, Unsat, Aborted
  assignment,     \* the solver's solution: the variables assigned true
  platforms,      \* PlatformLayout.platforms of the Sat response
  decode_error,   \* whether from_assignment ended with an error
  validation,     \* ValidationResult, << >> before validate ran
  dag,            \* an EncodingDag built by EncodingDag::new, << >> before
  indices,        \* the argument of the last maximal_from call
  maximal,        \* the value the last maximal_from call returned
  call,           \* the arguments of the last call of a function on its own
  ret             \* the value that call returned

pipelineVars == <<pc, platform_defs, world, limits, evars, var_manager, instance, card,
                  response, assignment, platforms, decode_error, validation>>

dagVars == <<dag, indices, maximal>>

fnVars == <<call, ret>>

vars == <<pipelineVars, dagVars, fnVars>>

Defs == (1..MaxDim) \X (1..MaxDim)

Catalogs == KSubsets(Defs, MaxDefs) \ {{}}

WorldDims == {d \in (1..MaxCells) \X (1..MaxCells) : d[1] * d[2] <= MaxCells}

Worlds == UNION {{[dims |-> d, data |-> f] : f \in [1..(d[1] * d[2]) -> BOOLEAN]} : d \in WorldDims}

\* the limit maps of a run: a count for some of the catalog's platform types
LimitMaps(defs) == UNION {[D -> 0..MaxLimit] : D \in KSubsets(defs, MaxLimited)}

InitRun ==
  /\ pc = "new"
  /\ evars = << >>
  /\ var_manager = 0
  /\ instance = {}
  /\ card = {}
  /\ response = "none"
  /\ assignment = {}
  /\ platforms = << >>
  /\ decode_error = FALSE
  /\ validation = << >>
  /\ dag = << >>
  /\ indices = {}
  /\ maximal = {}
  /\ call = << >>
  /\ ret = << >>

Init ==
  /\ platform_defs \in Catalogs
  /\ world \in Worlds
  /\ limits = << >>
  /\ InitRun

(***************************************************************************)
(* Actions                                                                 *)
(***************************************************************************)
\* encoder::encode(platform_defs, terrain, instance), as SolverConfig::new
\* calls it: builds the variables and adds the clauses
Encode ==
  /\ pc = "new"
  /\ LET dim_map == dims_platform_map(platform_defs)
     IN \E dim_keys \in Perms(DOMAIN dim_map) :
          \E first_def \in {f \in [DOMAIN dim_map -> platform_defs] :
                               \A d \in DOMAIN dim_map : f[d] \in dim_map[d]} :
            LET ev == EncodingVars_new(platform_defs, world, dim_keys, first_def)
            IN /\ evars' = ev
               /\ var_manager' = ev.next_var
               /\ instance' = encode(ev, world)
  /\ pc' = "encoded"
  /\ UNCHANGED <<platform_defs, world, limits, card, response, assignment, platforms,
                 decode_error, validation, dagVars, fnVars>>

\* the constraints SolverConfig::start adds for cfg.limits
StartConstraints(ev, lim) ==
  IF PLATFORMS_DEFAULT_0 \in DOMAIN lim
  THEN {[lits |-> iter_dims_vars(ev, PlatformDefDims(PLATFORMS_DEFAULT_0)),
         k |-> lim[PLATFORMS_DEFAULT_0]]}
  ELSE {}

\* SolverConfig::start(cfg) up to the spawn of the solver task
Start ==
  /\ pc = "encoded"
  /\ \E cfg_limits \in LimitMaps(platform_defs) :
       \* iter_dims_vars(..).unwrap() needs the 1x1 footprint in the catalog
       /\ PLATFORMS_DEFAULT_0 \in DOMAIN cfg_limits => PLATFORMS_DEFAULT_0 \in platform_dims(evars)
       /\ limits' = cfg_limits
       /\ card' = StartConstraints(evars, cfg_limits)
  /\ pc' = "started"
  /\ UNCHANGED <<platform_defs, world, evars, var_manager, instance, response,
                 assignment, platforms, decode_error, validation, dagVars, fnVars>>

\* the solver task answers Sat; the solution is decoded
SolveSat ==
  /\ pc = "started"
  /\ \E P \in KSubsets(PlatformVars(evars), MaxTrue) :
       /\ IsModel(instance, card, evars, P)
       /\ assignment' = Extend(instance, evars, P)
       /\ platforms' = from_assignment(assignment', evars)
       /\ decode_error' = from_assignment_is_err(assignment', evars)
  /\ response' = "Sat"
  /\ pc' = "solved"
  /\ UNCHANGED <<platform_defs, world, limits, evars, var_manager, instance, card,
                 validation, dagVars, fnVars>>

\* the solver task answers Unsat
SolveUnsat ==
  /\ pc = "started"
  /\ ~Satisfiable(instance, card, evars)
  /\ response' = "Unsat"
  /\ pc' = "solved"
  /\ UNCHANGED <<platform_defs, world, limits, evars, var_manager, instance, card,
                 assignment, platforms, decode_error, validation, dagVars, fnVars>>

\* the solver task was interrupted
SolveAborted ==
  /\ pc = "started"
  /\ response' = "Aborted"
  /\ pc' = "solved"
  /\ UNCHANGED <<platform_defs, world, limits, evars, var_manager, instance, card,
                 assignment, platforms, decode_error, validation, dagVars, fnVars>>

\* PlatformLayout::validate(world) on the layout of a Sat response
Validate ==
  /\ pc = "solved"
  /\ response = "Sat"
  /\ \E order \in Perms(DOMAIN platforms) :
       validation' = validate(platforms, world, order)
  /\ pc' = "validated"
  /\ UNCHANGED <<platform_defs, world, limits, evars, var_manager, instance, card,
                 response, assignment, platforms, decode_error, dagVars, fnVars>>

Next == Encode \/ Start \/ SolveSat \/ SolveUnsat \/ SolveAborted \/ Validate

Spec == Init /\ [][Next]_vars

(***************************************************************************)
(* EncodingDag on its own: the DAG of a catalog and maximal_from on sets   *)
(* of its platform nodes, the sets encode passes to it.                    *)
(***************************************************************************)
NoWorld == [dims |-> <<0, 0>>, data |-> << >>]

\* the sets of footprints EncodingDag::new is given: some dims and their swaps
DimsSets == {C \cup {flipped(d) : d \in C} : C \in KSubsets(Defs, MaxDefs) \ {{}}}

InitDag ==
  /\ platform_defs = {}
  /\ world = NoWorld
  /\ limits = << >>
  /\ InitRun

\* EncodingDag::new(platform_dims)
NewDag ==
  /\ pc = "new"
  /\ \E platform_dims_arg \in DimsSets : dag' = EncodingDag_new(platform_dims_arg)
  /\ pc' = "dag"
  /\ UNCHANGED <<platform_defs, world, limits, evars, var_manager, instance, card,
                 response, assignment, platforms, decode_error, validation, indices, maximal,
                 fnVars>>

\* dag.maximal_from(indices)
MaximalFrom ==
  /\ pc = "dag"
  /\ \E ix \in SUBSET {n \in dag.nodes : n.kind = "Platform"} :
       /\ indices' = ix
       /\ maximal' = maximal_from(dag, ix)
  /\ pc' = "maximal"
  /\ UNCHANGED <<platform_defs, world, limits, evars, var_manager, instance, card,
                 response, assignment, platforms, decode_error, validation, dag, fnVars>>

NextDag == NewDag \/ MaximalFrom

SpecDag == InitDag /\ [][NextDag]_vars

(***************************************************************************)
(* EncodingVars on its own: the variable table of a catalog and a world,   *)
(* and var_to_platform on its variables.                                   *)
(***************************************************************************)
VarsCatalogs == KSubsets((1..VarsMaxDim) \X (1..VarsMaxDim), VarsMaxDefs) \ {{}}

VarsWorlds ==
  UNION {{[dims |-> d, data |-> f] : f \in [1..(d[1] * d[2]) -> BOOLEAN]} :
           d \in {e \in (1..VarsMaxCells) \X (1..VarsMaxCells) : e[1] * e[2] <= VarsMaxCells}}

InitVars ==
  /\ platform_defs \in VarsCatalogs
  /\ world \in VarsWorlds
  /\ limits = << >>
  /\ InitRun

\* EncodingVars::new(platform_defs, terrain, var_man)
NewVars ==
  /\ pc = "new"
  /\ LET dim_map == dims_platform_map(platform_defs)
     IN \E dim_keys \in Perms(DOMAIN dim_map) :
          \E first_def \in {f \in [DOMAIN dim_map -> platform_defs] :
                               \A d \in DOMAIN dim_map : f[d] \in dim_map[d]} :
            LET ev == EncodingVars_new(platform_defs, world, dim_keys, first_def)
            IN /\ evars' = ev
               /\ var_manager' = ev.next_var
  /\ pc' = "vars"
  /\ UNCHANGED <<platform_defs, world, limits, instance, card, response, assignment,
                 platforms, decode_error, validation, dagVars, fnVars>>

\* vars.var_to_platform(var) for a variable the manager has handed out
VarToPlatform ==
  /\ pc = "vars"
  /\ \E var \in 0..(var_manager - 1) :
       /\ call' = [var |-> var]
       /\ ret' = var_to_platform(evars, var)
  /\ pc' = "returned"
  /\ UNCHANGED <<platform_defs, world, limits, evars, var_manager, instance, card,
                 response, assignment, platforms, decode_error, validation, dagVars>>

NextVars == NewVars \/ VarToPlatform

SpecVars == InitVars /\ [][NextVars]_vars

(***************************************************************************)
(* The run with the catalog {1x1}, on worlds of more tiles.                *)
(***************************************************************************)
UnitWorlds ==
  UNION {{[dims |-> d, data |-> f] : f \in [1..(d[1] * d[2]) -> BOOLEAN]} :
           d \in {e \in (1..UnitMaxCells) \X (1..UnitMaxCells) : e[1] * e[2] <= UnitMaxCells}}

InitUnit ==
  /\ platform_defs = {PLATFORMS_DEFAULT_0}
  /\ world \in UnitWorlds
  /\ limits = << >>
  /\ InitRun

SpecUnit == InitUnit /\ [][Next]_vars

(***************************************************************************)
(* PlatformLayout::validate on its own: a layout and a world.  The origins *)
(* of a layout are tiles of the world, one platform per origin.            *)
(***************************************************************************)
GridsUpTo(max_cells) ==
  UNION {{[dims |-> d, data |-> f] : f \in [1..(d[1] * d[2]) -> BOOLEAN]} :
           d \in {e \in (1..max_cells) \X (1..max_cells) : e[1] * e[2] <= max_cells}}

\* the layouts on the grid with at most max_platforms platforms whose defs
\* have sides up to max_dim
Layouts(grid, max_platforms, max_dim) ==
  UNION {{[o \in origins |-> PlatformNew(o, kind[o][1], kind[o][2])] :
            kind \in [origins -> ((1..max_dim) \X (1..max_dim)) \X BOOLEAN]} :
           origins \in KSubsets(Range(iter_within(grid.dims)), max_platforms)}

InitLayout(max_cells, max_platforms, max_dim) ==
  /\ platform_defs = {}
  /\ world \in GridsUpTo(max_cells)
  /\ limits = << >>
  /\ pc = "layout"
  /\ evars = << >>
  /\ var_manager = 0
  /\ instance = {}
  /\ card = {}
  /\ response = "none"
  /\ assignment = {}
  /\ platforms \in Layouts(world, max_platforms, max_dim)
  /\ decode_error = FALSE
  /\ validation = << >>
  /\ dag = << >>
  /\ indices = {}
  /\ maximal = {}
  /\ call = << >>
  /\ ret = << >>

\* layout.validate(world)
ValidateLayout ==
  /\ pc = "layout"
  /\ \E order \in Perms(DOMAIN platforms) :
       validation' = validate(platforms, world, order)
  /\ pc' = "validated"
  /\ UNCHANGED <<platform_defs, world, limits, evars, var_manager, instance, card,
                 response, assignment, platforms, decode_error, dagVars, fnVars>>

InitOverlap == InitLayout(OverlapMaxCells, OverlapMaxPlatforms, OverlapMaxDim)

SpecOverlap == InitOverlap /\ [][ValidateLayout]_vars

InitSupport == InitLayout(SupportMaxCells, SupportMaxPlatforms, SupportMaxDim)

SpecSupport == InitSupport /\ [][ValidateLayout]_vars

(***************************************************************************)
(* The functions of Dimensions and Point, called on their own.             *)
(***************************************************************************)
InitCall ==
  /\ platform_defs = {}
  /\ world = NoWorld
  /\ limits = << >>
  /\ InitRun

Returned ==
  /\ pc' = "returned"
  /\ UNCHANGED <<platform_defs, world, limits, evars, var_manager, instance, card,
                 response, assignment, platforms, decode_error, validation, dagVars>>

\* self.partial_cmp(&other) and self == other
PartialCmp ==
  /\ pc = "new"
  /\ \E self \in (0..CmpMaxDim) \X (0..CmpMaxDim) :
       \E other \in (0..CmpMaxDim) \X (0..CmpMaxDim) :
         /\ call' = [self |-> self, other |-> other]
         /\ ret' = [partial_cmp |-> partial_cmp(self, other), eq |-> DimsEq(self, other)]
  /\ Returned

SpecCmp == InitCall /\ [][PartialCmp]_vars

\* a Dimensions value built by Dimensions::new(width, height)
InitIter ==
  /\ platform_defs = {}
  /\ world = NoWorld
  /\ limits = << >>
  /\ pc = "new"
  /\ evars = << >>
  /\ var_manager = 0
  /\ instance = {}
  /\ card = {}
  /\ response = "none"
  /\ assignment = {}
  /\ platforms = << >>
  /\ decode_error = FALSE
  /\ validation = << >>
  /\ dag = << >>
  /\ indices = {}
  /\ maximal = {}
  /\ call \in {[self |-> d] : d \in (0..IterMaxDim) \X (0..IterMaxDim)}
  /\ ret = << >>

\* self.iter_within().collect()
IterWithin ==
  /\ pc = "new"
  /\ ret' = iter_within(call.self)
  /\ UNCHANGED call
  /\ Returned

SpecIter == InitIter /\ [][IterWithin]_vars

\* self.adjacent_points(depth, &grid) for a point of the grid
AdjacentPoints ==
  /\ pc = "new"
  /\ \E grid \in GridsUpTo(AdjacentMaxCells) :
       \E self \in Range(iter_within(grid.dims)) :
         \E depth \in 0..AdjacentMaxDepth :
           /\ call' = [self |-> self, depth |-> depth, grid |-> grid]
           /\ ret' = adjacent_points(self, depth, grid)
  /\ Returned

SpecAdjacent == InitCall /\ [][AdjacentPoints]_vars

(***************************************************************************)
(* Deserializing a WorldGrid from rows of characters.                      *)
(***************************************************************************)
RECURSIVE SeqsUpTo(_, _)
\* the sequences over S of length at most n
SeqsUpTo(S, n) ==
  IF n = 0 THEN {<< >>}
  ELSE LET shorter == SeqsUpTo(S, n - 1)
       IN shorter \cup {Append(q, x) : q \in {r \in shorter : Len(r) = n - 1}, x \in S}

\* a character of the row is neither ' ' nor 'X': the row conversion is Err
RowIsErr(row_str) == \E i \in 1..Len(row_str) : row_str[i] \notin {" ", "X"}

\* the characters of a row mapped to tiles
RowToBools(row_str) == [i \in 1..Len(row_str) |-> row_str[i] = "X"]

RECURSIVE MaxLenOf(_, _)
\* rows.iter().map(Vec::len).max() over rows[i..]
MaxLenOf(rows, i) ==
  IF i > Len(rows) THEN 0 ELSE Max2(Len(rows[i]), MaxLenOf(rows, i + 1))

\* WorldGridVisitor::visit_seq on the strings of the sequence.  A panic of
\* chunks_exact_mut (chunk size 0) or of copy_from_slice (source and
\* destination of different lengths) is the outcome "panic".
visit_seq(seq) ==
  LET converted == [i \in 1..Len(seq) |-> RowToBools(seq[i])]
  IN IF \E i \in 1..Len(seq) : RowIsErr(seq[i]) THEN [kind |-> "Err"]
     ELSE IF Len(seq) = 0 THEN [kind |-> "Err"]
     ELSE LET width == MaxLenOf(converted, 1)
              height == Len(converted)
          IN IF width = 0 THEN [kind |-> "panic"]
             ELSE IF \E i \in 1..height : Len(converted[i]) # width
                  THEN [kind |-> "panic"]
             ELSE [kind |-> "Ok",
                   grid |-> [dims |-> <<width, height>>,
                             data |-> [k \in 1..(width * height) |->
                                         converted[((k - 1) \div width) + 1][((k - 1) % width) + 1]]]]

\* serde_json::from_str::<WorldGrid> on an array of strings
Deserialize ==
  /\ pc = "new"
  /\ \E seq \in SeqsUpTo(SeqsUpTo({" ", "X"}, RowMaxLen), MaxRows) :
       /\ call' = [seq |-> seq]
       /\ ret' = visit_seq(seq)
  /\ Returned

SpecWorld == InitCall /\ [][Deserialize]_vars

(***************************************************************************)
(* Platform of platform.rs: a point and a PlatformType.                    *)
(***************************************************************************)
PlatformTypes ==
  {"Square1x1", "Square3x3", "Square5x5", "Rect1x2(Horizontal)", "Rect1x2(Vertical)"}

\* Point::flipped_if
flipped_if(p, cond) == IF cond THEN <<p[2], p[1]>> ELSE p

\* PlatformType::area_outer_corner_relative
area_outer_corner_relative(type) ==
  CASE type = "Square1x1" -> <<0, 0>>
    [] type = "Square3x3" -> <<2, 2>>
    [] type = "Square5x5" -> <<4, 4>>
    [] type = "Rect1x2(Horizontal)" -> flipped_if(<<0, 1>>, FALSE)
    [] type = "Rect1x2(Vertical)" -> flipped_if(<<0, 1>>, TRUE)

\* Platform::area_corners
area_corners(plat) ==
  <<plat.point, PointAdd(area_outer_corner_relative(plat.type), plat.point)>>

\* A slip of overlaps: rectangles that share only a border cell are missed.
overlaps_strict(self, other) ==
  LET self_near == area_corners(self)[1]
      self_far == area_corners(self)[2]
      other_near == area_corners(other)[1]
      other_far == area_corners(other)[2]
  IN /\ other_far[1] > self_near[1]
     /\ other_far[2] > self_near[2]
     /\ other_near[1] < self_far[1]
     /\ other_near[2] < self_far[2]

\* Platform::overlaps
overlaps(self, other) ==
  LET self_near == area_corners(self)[1]
      self_far == area_corners(self)[2]
      other_near == area_corners(other)[1]
      other_far == area_corners(other)[2]
  IN /\ other_far[1] >= self_near[1]
     /\ other_far[2] >= self_near[2]
     /\ other_near[1] <= self_far[1]
     /\ other_near[2] <= self_far[2]

\* Platform::new(point, type) for the points of a square of the plane
TypedPlatforms ==
  {[point |-> p, type |-> t] :
     p \in (0..PlatformMaxCoord) \X (0..PlatformMaxCoord), t \in PlatformTypes}

\* a.overlaps(&b) and b.overlaps(&a)
Overlaps ==
  /\ pc = "new"
  /\ \E a \in TypedPlatforms : \E b \in TypedPlatforms :
       /\ call' = [a |-> a, b |-> b]
       /\ ret' = [forward |-> overlaps(a, b), reverse |-> overlaps(b, a)]
  /\ Returned

SpecPlatform == InitCall /\ [][Overlaps]_vars

(***************************************************************************)
(* loop_with_feedback.  The two closures are arbitrary FnMut: each call    *)
(* returns any ControlFlow value.  `call` holds the locals of the function *)
(* and the calls made so far, `ret` the value returned.                    *)
(***************************************************************************)
ControlFlow ==
  {[kind |-> "Continue", value |-> v] : v \in 0..MaxValue}
    \cup {[kind |-> "Break", value |-> b] : b \in 0..MaxValue}

\* A slip of the loop: the index is advanced before after_each is called.
AfterEachIndex_advanced(iteration) == iteration + 1

\* the index after_each is given in round `iteration`
AfterEachIndex(iteration) == iteration

\* loop_with_feedback(initial, after_each, closure) is entered
LoopStart ==
  /\ pc = "new"
  /\ \E initial \in 0..MaxValue :
       call' = [initial |-> initial, input |-> initial, iteration |-> 0,
                output |-> 0, trace |-> << >>]
  /\ pc' = "closure"
  /\ UNCHANGED <<platform_defs, world, limits, evars, var_manager, instance, card,
                 response, assignment, platforms, decode_error, validation, dagVars, ret>>

\* match closure(iteration, input)
CallClosure ==
  /\ pc = "closure"
  /\ call.iteration < MaxIterations
  /\ \E flow \in ControlFlow :
       LET made == [fn |-> "closure", index |-> call.iteration, arg |-> call.input,
                    flow |-> flow]
       IN IF flow.kind = "Continue"
          THEN /\ call' = [call EXCEPT !.output = flow.value, !.trace = Append(@, made)]
               /\ pc' = "after_each"
               /\ UNCHANGED ret
          ELSE /\ call' = [call EXCEPT !.trace = Append(@, made)]
               /\ pc' = "returned"
               /\ ret' = flow.value
  /\ UNCHANGED <<platform_defs, world, limits, evars, var_manager, instance, card,
                 response, assignment, platforms, decode_error, validation, dagVars>>

\* match after_each(iteration, output), then iteration += 1
CallAfterEach ==
  /\ pc = "after_each"
  /\ \E flow \in ControlFlow :
       LET made == [fn |-> "after_each", index |-> AfterEachIndex(call.iteration),
                    arg |-> call.output, flow |-> flow]
       IN IF flow.kind = "Continue"
          THEN /\ call' = [call EXCEPT !.input = flow.value,
                                       !.iteration = @ + 1,
                                       !.trace = Append(@, made)]
               /\ pc' = "closure"
               /\ UNCHANGED ret
          ELSE /\ call' = [call EXCEPT !.trace = Append(@, made)]
               /\ pc' = "returned"
               /\ ret' = flow.value
  /\ UNCHANGED <<platform_defs, world, limits, evars, var_manager, instance, card,
                 response, assignment, platforms, decode_error, validation, dagVars>>

NextLoop == LoopStart \/ CallClosure \/ CallAfterEach

SpecLoop == InitCall /\ [][NextLoop]_vars

(***************************************************************************)
(* encode on catalogs of more platform types, for the clauses of one tile. *)
(***************************************************************************)
SelectCatalogs ==
  {c \in SUBSET ((1..SelectMaxDim) \X (1..SelectMaxDim)) :
     c # {} /\ Cardinality(c \cup {flipped(d) : d \in c}) <= SelectMaxFootprints}

InitSelect ==
  /\ platform_defs \in SelectCatalogs
  /\ world \in GridsUpTo(SelectMaxCells)
  /\ limits = << >>
  /\ InitRun

SpecSelect == InitSelect /\ [][Encode]_vars

(***************************************************************************)
(* run_solver: the solver is started again after every solution, with the  *)
(* limit of PLATFORMS_DEFAULT[0] lowered.  `limits` is run_config.limits,   *)
(* `call.solutions` the platform counts of the solutions found so far.     *)
(***************************************************************************)
\* the catalogs of run_solver hold PLATFORMS_DEFAULT[0]
RunCatalogs ==
  {c \in KSubsets((1..RunMaxDim) \X (1..RunMaxDim), RunMaxDefs) : PLATFORMS_DEFAULT_0 \in c}

InitRunSolver ==
  /\ platform_defs \in RunCatalogs
  /\ world \in GridsUpTo(RunMaxCells)
  /\ limits \in LimitMaps(platform_defs)
  /\ pc = "new"
  /\ evars = << >>
  /\ var_manager = 0
  /\ instance = {}
  /\ card = {}
  /\ response = "none"
  /\ assignment = {}
  /\ platforms = << >>
  /\ decode_error = FALSE
  /\ validation = << >>
  /\ dag = << >>
  /\ indices = {}
  /\ maximal = {}
  /\ call = [solutions |-> << >>]
  /\ ret = << >>

\* A slip of the new limit: the count of the solution itself.
NextLimit_same(count) == count

\* the limit inserted after a solution with `count` platforms
NextLimit(count) == count - 1

\* solver.start(&run_config) at the top of the loop
RunStart ==
  /\ pc = "encoded"
  /\ Len(call.solutions) < MaxRuns
  /\ card' = StartConstraints(evars, limits)
  /\ pc' = "started"
  /\ UNCHANGED <<platform_defs, world, limits, evars, var_manager, instance, response,
                 assignment, platforms, decode_error, validation, dagVars, fnVars>>

\* a solution with platforms: the limit is lowered, the solution validated
\* and printed, and the loop goes round
RunContinue ==
  /\ pc = "solved"
  /\ response = "Sat"
  /\ platform_count(platforms) # 0
  /\ limits' = [d \in DOMAIN limits \cup {PLATFORMS_DEFAULT_0} |->
                  IF d = PLATFORMS_DEFAULT_0 THEN NextLimit(platform_count(platforms))
                  ELSE limits[d]]
  /\ \E order \in Perms(DOMAIN platforms) :
       validation' = validate(platforms, world, order)
  /\ call' = [call EXCEPT !.solutions = Append(@, platform_count(platforms))]
  /\ pc' = "encoded"
  /\ UNCHANGED <<platform_defs, world, evars, var_manager, instance, card, response,
                 assignment, platforms, decode_error, dagVars, ret>>

\* return Ok(()) on Unsat, on Aborted and on a solution with no platform
RunReturn ==
  /\ pc = "solved"
  /\ \/ response \in {"Unsat", "Aborted"} /\ UNCHANGED call
     \/ /\ response = "Sat"
        /\ platform_count(platforms) = 0
        /\ call' = [call EXCEPT !.solutions = Append(@, 0)]
  /\ pc' = "returned"
  /\ UNCHANGED <<platform_defs, world, limits, evars, var_manager, instance, card,
                 response, assignment, platforms, decode_error, validation, dagVars, ret>>

NextRun ==
  Encode \/ RunStart \/ SolveSat \/ SolveUnsat \/ SolveAborted \/ RunContinue \/ RunReturn

SpecRun == InitRunSolver /\ [][NextRun]_vars

(***************************************************************************)
(* The GUI: App, SolverBackend and SolverSession.  The UI thread runs      *)
(* App::update frame after frame; every session has a blocking worker that *)
(* solves and sends its result through the session's oneshot channel.      *)
(* `call` holds the fields of App, the sessions started so far and what    *)
(* the frames have seen; `ret` is what the last try_recv returned.  A      *)
(* session is known by its index in `sessions`; 0 stands for no session.   *)
(***************************************************************************)
NoLimit == [some |-> FALSE, v |-> 0]

SomeLimit(v) == [some |-> TRUE, v |-> v]

NoValue == [kind |-> "none", weight |-> 0]

NoLayout == [some |-> FALSE, session |-> 0, weight |-> 0]

\* what the worker of a session can end with: the value of solver.solve(),
\* with the weight of the solution on Sat, or a panic of the solver.  A
\* solution found under a weight limit weighs at most the limit; only an
\* interrupted solver answers Interrupted.
Outcomes(session) ==
  {[kind |-> "Sat", weight |-> w] :
     w \in {x \in 0..MaxWeight : session.limit.some => x <= session.limit.v}}
    \cup {[kind |-> k, weight |-> 0] :
            k \in {"Unsat", "Err", "panic"} \cup (IF session.interrupted THEN {"Interrupted"} ELSE {})}

\* rx.try_recv() on the channel of a session
ChannelTryRecv(session) ==
  IF session.chan = "value" THEN "Ok"
  ELSE IF session.chan = "empty" THEN "Empty"
  ELSE "Closed"

\* A slip of the Empty arm: the slot is cleared while the worker runs.
try_recv_forgets(maybe_self, sessions) ==
  IF maybe_self = 0 THEN [some |-> FALSE, value |-> NoValue, slot |-> 0]
  ELSE LET received == ChannelTryRecv(sessions[maybe_self])
       IN IF received = "Ok"
          THEN [some |-> TRUE, value |-> sessions[maybe_self].value, slot |-> 0]
          ELSE [some |-> FALSE, value |-> NoValue, slot |-> 0]

\* SolverSession::try_recv(maybe_self): what it returns and the slot after
try_recv(maybe_self, sessions) ==
  IF maybe_self = 0 THEN [some |-> FALSE, value |-> NoValue, slot |-> 0]
  ELSE LET received == ChannelTryRecv(sessions[maybe_self])
       IN IF received = "Ok"
          THEN [some |-> TRUE, value |-> sessions[maybe_self].value, slot |-> 0]
          ELSE IF received = "Empty"
          THEN [some |-> FALSE, value |-> NoValue, slot |-> maybe_self]
          ELSE [some |-> FALSE, value |-> NoValue, slot |-> 0]

\* A slip of start_solver: a session that is active stays in the slot.
InstallSession_keeps_old(old, new) == IF old # 0 THEN old ELSE new

\* self.active_session = self.backend.start(..).ok(), after the take()
InstallSession(old, new) == new

\* A slip of the refinement: the next limit is the weight itself.
RefineLimit_same(weight) == weight

\* weight.checked_sub(1)
RefineLimit(weight) == weight - 1

\* App::start_solver(limits): the active session is taken, interrupted and
\* dropped with its receiver; a new session is started and installed, or
\* none when SolverBackend::start fails
start_solver(app, limit, started) ==
  LET old == app.active_session
      closed == IF old = 0 THEN app.sessions
                ELSE [app.sessions EXCEPT ![old].interrupted = TRUE,
                                          ![old].rx = "dropped",
                                          ![old].chan = "closed",
                                          ![old].value = NoValue]
      session == [limit |-> limit, worker |-> "running", interrupted |-> FALSE,
                  chan |-> "empty", rx |-> "alive", value |-> NoValue]
      new == Len(closed) + 1
  IN [app EXCEPT
        !.sessions = IF started THEN Append(closed, session) ELSE closed,
        !.active_session = IF started THEN InstallSession(old, new) ELSE 0,
        !.superseded = IF old = 0 THEN @ ELSE @ \cup {old},
        !.chain = IF started THEN Append(@, limit) ELSE @]

InitGui ==
  /\ platform_defs = {}
  /\ world = NoWorld
  /\ limits = << >>
  /\ pc = "frame"
  /\ evars = << >>
  /\ var_manager = 0
  /\ instance = {}
  /\ card = {}
  /\ response = "none"
  /\ assignment = {}
  /\ platforms = << >>
  /\ decode_error = FALSE
  /\ validation = << >>
  /\ dag = << >>
  /\ indices = {}
  /\ maximal = {}
  /\ call = [active_session |-> 0, displayed_layout |-> NoLayout, sessions |-> << >>,
             superseded |-> {}, chain |-> << >>, clicks |-> 0,
             polled |-> [session |-> 0, received |-> "Closed", slot |-> 0],
             delivered |-> << >>, last_sat |-> NoLayout,
             handled |-> [kind |-> "none", weight |-> 0, restarted |-> FALSE]]
  /\ ret = [some |-> FALSE, value |-> NoValue]

GuiUnchanged ==
  UNCHANGED <<platform_defs, world, limits, evars, var_manager, instance, card, response,
              assignment, platforms, decode_error, validation, dagVars>>

\* the worker of a session: solver.solve() ends, tx.send((result, solver))
WorkerFinish ==
  /\ \E id \in 1..Len(call.sessions) :
       /\ call.sessions[id].worker = "running"
       /\ \E outcome \in Outcomes(call.sessions[id]) :
            call' = [call EXCEPT
              !.sessions[id].worker = "done",
              !.sessions[id].chan =
                 IF call.sessions[id].rx = "dropped" THEN @
                 ELSE IF outcome.kind = "panic" THEN "closed" ELSE "value",
              !.sessions[id].value =
                 IF call.sessions[id].rx = "dropped" \/ outcome.kind = "panic" THEN @
                 ELSE outcome]
  /\ UNCHANGED <<pc, ret>>
  /\ GuiUnchanged

\* App::update, first part: try_get_current_session_results
UpdatePoll ==
  /\ pc = "frame"
  /\ LET got == try_recv(call.active_session, call.sessions)
         polled == call.active_session
         taken == IF got.some
                  THEN [call.sessions EXCEPT ![polled].chan = "closed",
                                             ![polled].rx = "dropped",
                                             ![polled].value = NoValue]
                  ELSE IF polled # 0 /\ got.slot = 0
                  THEN [call.sessions EXCEPT ![polled].rx = "dropped"]
                  ELSE call.sessions
     IN /\ ret' = [some |-> got.some, value |-> got.value]
        /\ call' = [call EXCEPT
              !.active_session = got.slot,
              !.sessions = taken,
              !.polled = [session |-> polled,
                          received |-> IF polled = 0 THEN "Closed"
                                       ELSE ChannelTryRecv(call.sessions[polled]),
                          slot |-> got.slot],
              !.delivered = IF got.some THEN Append(@, polled) ELSE @,
              !.last_sat = IF got.some /\ got.value.kind = "Sat"
                           THEN [some |-> TRUE, session |-> polled, weight |-> got.value.weight]
                           ELSE @,
              !.handled = [kind |-> IF got.some THEN got.value.kind ELSE "none",
                           weight |-> got.value.weight, restarted |-> FALSE]]
        /\ pc' = IF got.some /\ got.value.kind = "Sat" THEN "handle" ELSE "click"
  /\ GuiUnchanged

\* App::update, the Sat arm: the solver is started again under a lower weight
\* limit when weight - 1 > 0, and the layout becomes the displayed one
UpdateHandleSat ==
  /\ pc = "handle"
  /\ LET weight == call.handled.weight
         layout == call.last_sat
         restart == RefineLimit(weight) > 0
     IN \E started \in BOOLEAN :
          LET after == IF restart
                       THEN start_solver(call, SomeLimit(RefineLimit(weight)), started)
                       ELSE call
          IN call' = [after EXCEPT !.displayed_layout = layout,
                                   !.handled.restarted = restart /\ started]
  /\ pc' = "click"
  /\ UNCHANGED ret
  /\ GuiUnchanged

\* App::update, the Solve button: clicked or not in this frame
UpdateClick ==
  /\ pc = "click"
  /\ \/ UNCHANGED call
     \/ /\ call.clicks < MaxClicks
        /\ \E started \in BOOLEAN :
             call' = start_solver([call EXCEPT !.chain = << >>, !.clicks = @ + 1],
                                  NoLimit, started)
  /\ pc' = "frame"
  /\ UNCHANGED ret
  /\ GuiUnchanged

NextGui == WorkerFinish \/ UpdatePoll \/ UpdateHandleSat \/ UpdateClick

SpecGui == InitGui /\ [][NextGui]_vars

(***************************************************************************)
(* Properties                                                              *)
(***************************************************************************)
\* a Sat response has been decoded
Decoded == pc \in {"solved", "validated"} /\ response = "Sat"

\* the grid cells under a platform
Footprint(plat) == {PointAdd(o, plat.point) : o \in Range(iter_within(PlatformDims(plat)))}

WorldCells == Range(iter_within(world.dims))

TerrainCells == {p \in WorldCells : GridGet(world, p)}

\* the footprints whose placement variable at p is assigned true
TrueDimsAt(p) ==
  {d \in platform_dims(evars) : at(evars, p).dims_vars[d] \in assignment}

Incomparable(a, b) == partial_cmp(a, b) = "None"

\* g is the greatest element of the set T of dims
Greatest(T, g) == g \in T /\ \A d \in T : DimsEq(d, g) \/ DimsLt(d, g)

RECURSIVE TerrainReach(_, _)
\* the terrain cells reached from the cells of `from` by at most n
\* four-neighbour steps that stay on terrain
TerrainReach(from, n) ==
  IF n = 0 THEN from
  ELSE TerrainReach(from \cup {q \in TerrainCells : \E p \in from : q \in Range(neighbors(p))},
                    n - 1)

\* C1: every decoded layout validates: validate finds no unsupported
\* terrain, no overlapping platforms and no platform out of bounds.
C1_DecodedLayoutValidates == pc = "validated" => is_valid(validation)

\* C2: no two platforms of a decoded layout, placed at distinct origins,
\* share a grid cell.
C2_NoOverlap ==
  Decoded => \A p, q \in DOMAIN platforms :
               p # q => Footprint(platforms[p]) \cap Footprint(platforms[q]) = {}

\* C3: every terrain cell reaches, by at most K-1 steps over terrain cells, a
\* terrain cell under a platform of the decoded layout, and validate reports
\* no unsupported terrain.
C3_TerrainSupported ==
  /\ Decoded =>
       \A p \in TerrainCells :
         \E q \in TerrainReach({p}, TERRAIN_SUPPORT_DISTANCE - 1) :
           \E o \in DOMAIN platforms : q \in Footprint(platforms[o])
  /\ pc = "validated" => validation.unsupported_terrain = {}

\* C4: every cell of every platform of a decoded layout lies inside the
\* world grid.
C4_InsideWorld ==
  Decoded => \A o \in DOMAIN platforms : Footprint(platforms[o]) \subseteq WorldCells

\* C5: in a satisfying assignment, two incomparable footprints true at one
\* tile come with a true footprint at that tile that is larger than both.
C5_IncomparableForcesSuper ==
  Decoded =>
    \A p \in WorldCells : \A a, b \in TrueDimsAt(p) :
      Incomparable(a, b) => \E c \in TrueDimsAt(p) : DimsLt(a, c) /\ DimsLt(b, c)

\* C6: at every origin of the decoded layout the platform's effective dims
\* are the greatest of the footprints true at that origin, when there is a
\* greatest one.
C6_DecoderSelectsGreatest ==
  Decoded =>
    \A p \in DOMAIN platforms : \A g \in TrueDimsAt(p) :
      Greatest(TrueDimsAt(p), g) => DimsEq(PlatformDims(platforms[p]), g)

\* C7: when two incomparable footprints are true at one origin and no true
\* footprint there is larger than both, from_assignment ends with an error.
C7_DecodeInvariantReported ==
  (/\ Decoded
   /\ \E p \in WorldCells : \E a, b \in TrueDimsAt(p) :
        /\ Incomparable(a, b)
        /\ ~\E c \in TrueDimsAt(p) : DimsLt(a, c) /\ DimsLt(b, c))
    => decode_error

\* C8 as stated: maximal_from returns the nodes of the given set that have
\* no strictly larger node in the set.
C8_KeepsNodesWithoutSuccessor ==
  pc = "maximal" =>
    maximal = {n \in indices : ~\E m \in indices : NodeLt(n, m)}

\* C8 as the code has it: maximal_from returns the nodes of the given set
\* that have no strictly smaller node in the set; every node with a strictly
\* smaller node in the set is removed.
C8_KeepsNodesWithoutPredecessor ==
  pc = "maximal" =>
    /\ maximal \subseteq indices
    /\ \A n \in indices : n \in maximal <=> ~\E m \in indices : NodeLt(m, n)

\* a call that removed a node and kept another
C8_Witness ==
  pc = "maximal" /\ maximal # {} /\ \E n \in indices : n \notin maximal

\* C9: for every platform type with a limit, start has added a constraint
\* that bounds the placement variables of its footprint by the limit.
C9_EveryLimitConstrained ==
  pc \in {"started", "solved", "validated"} =>
    \A d \in DOMAIN limits :
      \E c \in card :
        c.k = limits[d] /\ iter_dims_vars(evars, PlatformDefDims(d)) \subseteq c.lits

\* C10: EncodingVars::new takes |W| * |S| + (terrain cells) * K variables
\* from the variable manager, and var_map has a record for each of them.
C10_AllocationCount ==
  pc \in {"encoded", "started", "solved", "validated"} =>
    /\ var_manager = Cardinality(WorldCells) * Cardinality(platform_dims(evars))
                       + Cardinality(TerrainCells) * TERRAIN_SUPPORT_DISTANCE
    /\ DOMAIN evars.var_map = 0..(var_manager - 1)

P1x1(p) == at(evars, p).dims_vars[<<1, 1>>]

\* the placement part P extends to an assignment satisfying the clauses
Extendable(P) == IsModel(instance, {}, evars, P)

Encoded == pc \in {"encoded", "started", "solved", "validated"}

\* C12 as stated: with the catalog {1x1} a placement extends to a satisfying
\* assignment exactly when every terrain cell has its own 1x1 variable
\* true, so every decoded layout has a platform on every terrain cell.
C12_EveryTerrainCellOwnPlatform ==
  /\ pc = "encoded" =>
       \A P \in SUBSET PlatformVars(evars) :
         Extendable(P) <=> \A c \in TerrainCells : P1x1(c) \in P
  /\ Decoded => \A c \in TerrainCells : c \in DOMAIN platforms

\* C12 as the code has it: with the catalog {1x1} a placement extends to a
\* satisfying assignment exactly when every terrain cell reaches, by at most
\* K-1 steps over terrain cells, a terrain cell whose 1x1 variable is true.
C12_TerrainCellNearPlatform ==
  pc = "encoded" =>
    \A P \in SUBSET PlatformVars(evars) :
      Extendable(P) <=>
        \A c \in TerrainCells :
          \E q \in TerrainReach({c}, TERRAIN_SUPPORT_DISTANCE - 1) : P1x1(q) \in P

\* two adjacent terrain cells decoded to a single platform
C12_Witness ==
  /\ Decoded
  /\ Cardinality(WorldCells) = 2 /\ TerrainCells = WorldCells
  /\ platform_count(platforms) = 1

\* the world is a straight strip of terrain cells
IsStrip == (world.dims[1] = 1 \/ world.dims[2] = 1) /\ TerrainCells = WorldCells

\* C13: on a straight strip of n terrain cells with the catalog {1x1}, the
\* placement whose only true variable is the 1x1 at an end cell extends to a
\* satisfying assignment exactly when n <= K.
C13_StripFromOneEnd ==
  pc = "encoded" /\ IsStrip =>
    \A end \in {<<0, 0>>, <<world.dims[1] - 1, world.dims[2] - 1>>} :
      Extendable({P1x1(end)}) <=> Cardinality(WorldCells) <= TERRAIN_SUPPORT_DISTANCE

\* a strip of K cells solved with the single platform at its end
C13_Witness ==
  /\ Decoded /\ IsStrip
  /\ Cardinality(WorldCells) = TERRAIN_SUPPORT_DISTANCE
  /\ DOMAIN platforms = {<<0, 0>>}

\* C14: with the catalog {1x1} and a single terrain cell c, the instance is
\* satisfiable and every satisfying assignment has P(c, 1x1) true.
C14_IsolatedCellNeedsPlatform ==
  /\ pc = "encoded" /\ Cardinality(TerrainCells) = 1 =>
       /\ \E P \in SUBSET PlatformVars(evars) : Extendable(P)
       /\ \A P \in SUBSET PlatformVars(evars) :
            Extendable(P) => \A c \in TerrainCells : P1x1(c) \in P
  /\ Decoded /\ Cardinality(TerrainCells) = 1 =>
       \A c \in TerrainCells : P1x1(c) \in assignment

\* a world of several tiles with one terrain cell, solved
C14_Witness ==
  /\ Decoded
  /\ Cardinality(TerrainCells) = 1 /\ Cardinality(WorldCells) > 1
  /\ \A c \in TerrainCells : P1x1(c) \in assignment

\* C15 as stated: in a world without terrain the instance is satisfiable and
\* the layout decoded from a satisfying assignment has no platform.
C15_NoTerrainDecodesEmpty ==
  /\ pc = "encoded" /\ TerrainCells = {} => \E P \in SUBSET PlatformVars(evars) : Extendable(P)
  /\ Decoded /\ TerrainCells = {} => platform_count(platforms) = 0

\* C15 as the code has it: in a world without terrain the assignment with
\* no placement variable true satisfies the clauses and decodes to the
\* layout without platforms.
C15_NoTerrainEmptyPlacementSatisfies ==
  pc = "encoded" /\ TerrainCells = {} =>
    /\ Extendable({})
    /\ platform_count(from_assignment(Extend(instance, evars, {}), evars)) = 0

\* a world without terrain solved with the empty layout
C15_Witness ==
  Decoded /\ TerrainCells = {} /\ assignment = {} /\ platform_count(platforms) = 0

\* the platforms of the layout whose footprint shares a cell with the
\* footprint of another platform of the layout
Intersecting ==
  {platforms[o] : o \in {a \in DOMAIN platforms :
      \E b \in DOMAIN platforms :
        b # a /\ Footprint(platforms[a]) \cap Footprint(platforms[b]) # {}}}

\* C16: validate puts into overlapping_platforms exactly the platforms whose
\* footprint intersects the footprint of another platform of the layout.
C16_OverlappingExact ==
  pc = "validated" => validation.overlapping_platforms = Intersecting

\* two platforms that share a cell only outside the first one's origin row
\* or column were both reported
C16_Witness ==
  /\ pc = "validated"
  /\ Cardinality(validation.overlapping_platforms) >= 2
  /\ \E p \in validation.overlapping_platforms : p.rotated

\* C17: validate's unsupported_terrain is exactly the set of terrain cells
\* that reach no terrain cell under a platform by at most K-1 steps over
\* terrain cells.
C17_UnsupportedExact ==
  pc = "validated" =>
    validation.unsupported_terrain =
      {c \in TerrainCells :
         ~\E q \in TerrainReach({c}, TERRAIN_SUPPORT_DISTANCE - 1) :
            \E o \in DOMAIN platforms : q \in Footprint(platforms[o])}

\* a strip with a platform at one end, some terrain supported at K-1 steps
\* and some terrain left unsupported
C17_Witness ==
  /\ pc = "validated"
  /\ TerrainCells = WorldCells
  /\ Cardinality(WorldCells) > TERRAIN_SUPPORT_DISTANCE
  /\ DOMAIN platforms = {<<0, 0>>}
  /\ Cardinality(validation.unsupported_terrain) = 1

\* C18: partial_cmp follows the table (non-empty values compare axis by
\* axis, an empty value is Less than every non-empty one and Equal to every
\* empty one) and == holds exactly when partial_cmp returns Equal.
C18_PartialCmpTable ==
  pc = "returned" =>
    LET a == call.self
        b == call.other
        ea == a[1] = 0 \/ a[2] = 0
        eb == b[1] = 0 \/ b[2] = 0
        expected ==
          CASE ea /\ eb -> "Equal"
            [] ea /\ ~eb -> "Less"
            [] ~ea /\ eb -> "Greater"
            [] ~ea /\ ~eb /\ a[1] = b[1] /\ a[2] = b[2] -> "Equal"
            [] ~ea /\ ~eb /\ a[1] <= b[1] /\ a[2] <= b[2] /\ a # b -> "Less"
            [] ~ea /\ ~eb /\ a[1] >= b[1] /\ a[2] >= b[2] /\ a # b -> "Greater"
            [] OTHER -> "None"
    IN /\ ret.partial_cmp = expected
       /\ ret.eq <=> (ret.partial_cmp = "Equal")

\* an empty value with a larger axis than a non-empty one was found Less
C18_Witness ==
  /\ pc = "returned"
  /\ call.self[1] = 0
  /\ call.self[2] > call.other[2]
  /\ call.other[1] > 0 /\ call.other[2] > 0
  /\ ret.partial_cmp = "Less"
  /\ ~ret.eq

\* C19: iter_within of (w, h) yields exactly w*h points, each once, each
\* contained in (w, h), also when w = 0 or h = 0.
C19_IterWithinExact ==
  pc = "returned" =>
    /\ Len(ret) = call.self[1] * call.self[2]
    /\ \A i \in 1..Len(ret) : \A j \in 1..Len(ret) : ret[i] = ret[j] => i = j
    /\ \A i \in 1..Len(ret) : contains(call.self, ret[i])

RECURSIVE TrueReach(_, _, _)
\* the cells reached from the set `from` by at most n steps onto cells
\* that are true in the grid
TrueReach(from, n, grid) ==
  IF n = 0 THEN from
  ELSE TrueReach(from \cup {q \in UNION {Range(neighbors(p)) : p \in from} :
                              GridHas(grid, q) /\ GridGet(grid, q)},
                 n - 1, grid)

\* C20: adjacent_points(depth, grid) returns exactly the start point and the
\* cells reached from it by at most depth steps over true cells, for every
\* depth from 0 on.
C20_AdjacentPointsExact ==
  pc = "returned" => ret = TrueReach({call.self}, call.depth, call.grid)

\* C21: deserializing a non-empty sequence of rows over ' ' and 'X' whose
\* lengths differ succeeds, with the longest row as width, the number of
\* rows as height, rows left-aligned and the missing tiles false.
C21_RaggedRowsDeserialize ==
  (/\ pc = "returned"
   /\ Len(call.seq) > 0
   /\ \E i \in 1..Len(call.seq) : \E j \in 1..Len(call.seq) :
        Len(call.seq[i]) # Len(call.seq[j]))
  => /\ ret.kind = "Ok"
     /\ ret.grid.dims = <<MaxLenOf(call.seq, 1), Len(call.seq)>>
     /\ \A y \in 1..Len(call.seq) : \A x \in 1..MaxLenOf(call.seq, 1) :
          GridGet(ret.grid, <<x - 1, y - 1>>)
            = (x <= Len(call.seq[y]) /\ call.seq[y][x] = "X")

\* the grid cells of the inclusive rectangle between the corners of a platform
AreaCells(plat) ==
  {<<x, y>> : x \in area_corners(plat)[1][1]..area_corners(plat)[2][1],
              y \in area_corners(plat)[1][2]..area_corners(plat)[2][2]}

\* C22: overlaps is symmetric and true exactly when the inclusive area
\* rectangles of the two platforms share a grid cell.
C22_OverlapsSymmetricExact ==
  pc = "returned" =>
    /\ ret.forward = ret.reverse
    /\ ret.forward <=> (AreaCells(call.a) \cap AreaCells(call.b) # {})

\* two platforms of different types that share exactly one cell overlap
C22_Witness ==
  /\ pc = "returned"
  /\ call.a.type # call.b.type
  /\ call.a.point # call.b.point
  /\ Cardinality(AreaCells(call.a) \cap AreaCells(call.b)) = 1
  /\ ret.forward /\ ret.reverse

\* C23: the calls alternate closure, after_each, starting with
\* closure(0, initial); both calls of round i get index i; each Continue
\* value is the argument of the next call; the first Break ends the calls
\* and its payload is the value returned.
C23_AlternateWithFeedback ==
  pc \in {"closure", "after_each", "returned"} =>
    LET t == call.trace
    IN /\ \A k \in 1..Len(t) :
            /\ t[k].fn = (IF k % 2 = 1 THEN "closure" ELSE "after_each")
            /\ t[k].index = (k - 1) \div 2
            /\ t[k].arg = (IF k = 1 THEN call.initial ELSE t[k - 1].flow.value)
            /\ k < Len(t) => t[k].flow.kind = "Continue"
       /\ pc = "returned" <=> (Len(t) > 0 /\ t[Len(t)].flow.kind = "Break")
       /\ pc = "returned" => ret = t[Len(t)].flow.value
       /\ pc = "closure" => Len(t) % 2 = 0
       /\ pc = "after_each" => Len(t) % 2 = 1

\* after_each broke the loop in its second round and its payload was returned
C23_Witness ==
  /\ pc = "returned"
  /\ Len(call.trace) = 4
  /\ call.trace[4].fn = "after_each"
  /\ call.trace[4].index = 1
  /\ call.trace[2].flow.value # call.trace[1].flow.value
  /\ ret = call.trace[4].flow.value

\* the footprints whose placement variable at p is in the placement P
DimsIn(P, p) == {d \in platform_dims(evars) : at(evars, p).dims_vars[d] \in P}

\* C24: in every satisfying assignment, a footprint true at a tile has every
\* strictly smaller footprint of S true at that tile, whether or not the
\* pair is an edge of the reduced graph.
C24_LargerImpliesEverySmaller ==
  pc = "encoded" =>
    \A P \in SUBSET PlatformVars(evars) :
      Extendable(P) =>
        \A p \in WorldCells : \A l \in DimsIn(P, p) : \A s \in platform_dims(evars) :
          DimsLt(s, l) => s \in DimsIn(P, p)

\* a satisfying assignment has a chain of three footprints true at a tile,
\* the smallest and the largest not joined by a reduced edge
C24_Witness ==
  /\ pc = "encoded"
  /\ \E P \in SUBSET PlatformVars(evars) :
       /\ Extendable(P)
       /\ \E p \in WorldCells : \E s, m, l \in DimsIn(P, p) :
            DimsLt(s, m) /\ DimsLt(m, l)

\* C25: when 1x1 is in the catalog, in every satisfying assignment the
\* footprints true at a tile are none or have a greatest element.
C25_UniqueGreatestActive ==
  (pc = "encoded" /\ <<1, 1>> \in platform_defs) =>
    \A P \in SUBSET PlatformVars(evars) :
      Extendable(P) =>
        \A p \in WorldCells :
          DimsIn(P, p) = {} \/ \E g \in DimsIn(P, p) : Greatest(DimsIn(P, p), g)

\* a satisfying assignment has two incomparable footprints true at a tile,
\* below a greatest one
C25_Witness ==
  /\ pc = "encoded"
  /\ <<1, 1>> \in platform_defs
  /\ \E P \in SUBSET PlatformVars(evars) :
       /\ Extendable(P)
       /\ \E p \in WorldCells : \E a, b, g \in DimsIn(P, p) :
            Incomparable(a, b) /\ Greatest(DimsIn(P, p), g)

\* C26: a Sat result of a solver started with a limit k on footprint d
\* decodes to a layout with at most k platforms whose effective footprint is
\* d or larger.
C26_LimitBoundsLayout ==
  Decoded =>
    \A d \in DOMAIN limits :
      Cardinality({p \in DOMAIN platforms :
                     \/ DimsEq(PlatformDims(platforms[p]), PlatformDefDims(d))
                     \/ DimsLt(PlatformDefDims(d), PlatformDims(platforms[p]))})
        <= limits[d]

LiveReceivers == {id \in 1..Len(call.sessions) : call.sessions[id].rx = "alive"}

\* C28: try_recv returns Some exactly when the worker of the session in the
\* slot has sent its result, and the slot is then None; while the worker
\* runs it returns None and the session stays in the slot; on a channel
\* closed without a value it returns None and the slot is None; no session
\* delivers twice.
C28_TryRecvAtMostOnce ==
  LET polled == call.polled
  IN /\ ret.some <=> (polled.session # 0 /\ polled.received = "Ok")
     /\ ret.some => polled.slot = 0 /\ call.sessions[polled.session].worker = "done"
     /\ (polled.session # 0 /\ polled.received = "Empty") => polled.slot = polled.session
     /\ polled.received = "Closed" => polled.slot = 0
     /\ \A i \in 1..Len(call.delivered) : \A j \in 1..Len(call.delivered) :
          call.delivered[i] = call.delivered[j] => i = j

\* a session has delivered its result, and the last try_recv found the
\* channel of a later session closed without a value
C28_Witness ==
  /\ call.delivered # << >>
  /\ call.polled.session > call.delivered[Len(call.delivered)]
  /\ call.polled.received = "Closed"
  /\ call.polled.slot = 0
  /\ ~ret.some

\* C29: a session taken by start_solver has been interrupted and its
\* receiver dropped; only the session in the slot has a live receiver; no
\* superseded session has delivered a result, and the displayed layout is
\* not the layout of a superseded session.
C29_SupersededNeverDelivers ==
  /\ \A id \in call.superseded :
       call.sessions[id].interrupted /\ call.sessions[id].rx = "dropped"
  /\ LiveReceivers \subseteq {call.active_session}
  /\ \A i \in 1..Len(call.delivered) : call.delivered[i] \notin call.superseded
  /\ call.displayed_layout.some => call.displayed_layout.session \notin call.superseded

\* the worker of a superseded session has finished, and a later session has
\* delivered its result and its layout is displayed
C29_Witness ==
  /\ \E id \in call.superseded :
       /\ call.sessions[id].worker = "done"
       /\ call.displayed_layout.some
       /\ call.displayed_layout.session > id
  /\ call.delivered # << >>

====
